---- MODULE Spec2Model ----
(***************************************************************************)
(* Model of the scan_os utility (src/scan_os/main.go): the IP-range        *)
(* expander parseIPRange, the two-stage probe (isHostReachable, then       *)
(* getOSInfo over executeSSHCommand), the bounded fan-out/fan-in of main   *)
(* and saveResultsToFile.                                                  *)
(*                                                                         *)
(* A Go string is modelled as a sequence of one-character strings, so that *)
(* Split, Atoi, Sprintf("%d") and TrimSpace are computed character by      *)
(* character. The text of a message is kept whole: an error built by      *)
(* fmt.Errorf("<prefix>: %v", err) is the two-element sequence             *)
(* <<prefix, cause>>, and "Host unreachable" is a one-element sequence.    *)
(***************************************************************************)
EXTENDS Integers, Sequences, FiniteSets, TLC

\* ------------------------------------------------------------------ bounds

\* Number of addresses of the range expression the scan runs over.
NumTargets == 3

\* Number of stages of executeSSHCommand (dial, session, run) the hosts fail
\* in the course of one scan; MaxFaults >= 2 lets both commands fail on a host.
MaxFaults == 2

\* Capacity of the admission semaphore. The source sets maxConcurrent := 10
\* (src/scan_os/main.go:228); the model runs the same code with a smaller
\* capacity so that NumTargets > maxConcurrent stays checkable.
maxConcurrent == 2

\* ----------------------------------------------------------------- strings

Digits == <<"0", "1", "2", "3", "4", "5", "6", "7", "8", "9">>

IsDigit(c) == \E d \in 1..10 : Digits[d] = c

DigitVal(c) == (CHOOSE d \in 1..10 : Digits[d] = c) - 1

\* strings.Contains(s, c) for a one-character c.
Contains(s, c) == \E k \in 1..Len(s) : s[k] = c

\* strings.Split(s, sep) for a one-character sep: the pieces between the
\* separators, empty pieces kept; a string without sep is its only piece.
RECURSIVE Split(_, _)
Split(s, sep) ==
    IF ~Contains(s, sep)
    THEN <<s>>
    ELSE LET k == CHOOSE j \in 1..Len(s) :
                    s[j] = sep /\ \A m \in 1..(j - 1) : s[m] # sep
         IN <<SubSeq(s, 1, k - 1)>> \o Split(SubSeq(s, k + 1, Len(s)), sep)

\* Value of a non-empty string of decimal digits.
RECURSIVE DecVal(_)
DecVal(s) ==
    IF Len(s) = 0 THEN 0
    ELSE 10 * DecVal(SubSeq(s, 1, Len(s) - 1)) + DigitVal(s[Len(s)])

\* strconv.Atoi: an optional sign, then one or more decimal digits; anything
\* else is a syntax error. (The 64-bit range error needs more than 18 digits
\* and is outside the inputs the model draws.)
Atoi(s) ==
    LET signed == Len(s) > 0 /\ s[1] \in {"+", "-"}
        body   == IF signed THEN Tail(s) ELSE s
    IN IF Len(body) = 0 \/ \E k \in 1..Len(body) : ~IsDigit(body[k])
       THEN [err |-> TRUE, val |-> 0]
       ELSE [err |-> FALSE,
             val |-> IF signed /\ s[1] = "-" THEN 0 - DecVal(body)
                     ELSE DecVal(body)]

\* fmt.Sprintf("%d", n).
RECURSIVE Itoa(_)
Itoa(n) ==
    IF n < 0 THEN <<"-">> \o Itoa(0 - n)
    ELSE IF n < 10 THEN <<Digits[n + 1]>>
    ELSE Itoa(n \div 10) \o <<Digits[(n % 10) + 1]>>

\* The white space strings.TrimSpace removes (of the characters the model
\* draws: space, tab, newline, carriage return).
White == {" ", "\t", "\n", "\r"}

\* strings.TrimSpace: drop leading and trailing white space only.
RECURSIVE TrimLeft(_)
TrimLeft(s) ==
    IF Len(s) > 0 /\ s[1] \in White THEN TrimLeft(Tail(s)) ELSE s

RECURSIVE TrimRight(_)
TrimRight(s) ==
    IF Len(s) > 0 /\ s[Len(s)] \in White
    THEN TrimRight(SubSeq(s, 1, Len(s) - 1)) ELSE s

TrimSpace(s) == TrimRight(TrimLeft(s))

RECURSIVE ConcatAll(_)
ConcatAll(ss) ==
    IF ss = <<>> THEN <<>> ELSE Head(ss) \o ConcatAll(Tail(ss))

\* ------------------------------------------------------------ parseIPRange

\* One part of the expression (the body of the loop at lines 41-73): its
\* list of values, or the error the loop returns with.
ParsePart_exclusiveEnd(part) ==
    IF Contains(part, "-")
    THEN LET rangeParts == Split(part, "-") IN
         IF Len(rangeParts) # 2
         THEN [err |-> "invalid range in part", vals |-> <<>>]
         ELSE LET start == Atoi(rangeParts[1])
                  end   == Atoi(rangeParts[2])
              IN IF start.err
                 THEN [err |-> "invalid start value in part", vals |-> <<>>]
                 ELSE IF end.err
                 THEN [err |-> "invalid end value in part", vals |-> <<>>]
                 ELSE IF start.val > end.val
                 THEN [err |-> "start cannot be greater than end in part",
                       vals |-> <<>>]
                 ELSE [err |-> "nil",
                       vals |-> [j \in 1..(end.val - start.val)
                                     |-> start.val + j - 1]]
    ELSE LET value == Atoi(part) IN
         IF value.err
         THEN [err |-> "invalid value in part", vals |-> <<>>]
         ELSE [err |-> "nil", vals |-> <<value.val>>]

\* Without the test of lines 44-46: the first two pieces of the part are
\* taken as its bounds.
ParsePart_lenientRange(part) ==
    IF Contains(part, "-")
    THEN LET rangeParts == Split(part, "-")
             start == Atoi(rangeParts[1])
             end   == Atoi(rangeParts[2])
         IN IF start.err
            THEN [err |-> "invalid start value in part", vals |-> <<>>]
            ELSE IF end.err
            THEN [err |-> "invalid end value in part", vals |-> <<>>]
            ELSE IF start.val > end.val
            THEN [err |-> "start cannot be greater than end in part",
                  vals |-> <<>>]
            ELSE [err |-> "nil",
                  vals |-> [j \in 1..(end.val - start.val + 1)
                                |-> start.val + j - 1]]
    ELSE LET value == Atoi(part) IN
         IF value.err
         THEN [err |-> "invalid value in part", vals |-> <<>>]
         ELSE [err |-> "nil", vals |-> <<value.val>>]

ParsePart(part) ==
    IF Contains(part, "-")
    THEN LET rangeParts == Split(part, "-") IN
         IF Len(rangeParts) # 2
         THEN [err |-> "invalid range in part", vals |-> <<>>]
         ELSE LET start == Atoi(rangeParts[1])
                  end   == Atoi(rangeParts[2])
              IN IF start.err
                 THEN [err |-> "invalid start value in part", vals |-> <<>>]
                 ELSE IF end.err
                 THEN [err |-> "invalid end value in part", vals |-> <<>>]
                 ELSE IF start.val > end.val
                 THEN [err |-> "start cannot be greater than end in part",
                       vals |-> <<>>]
                 ELSE [err |-> "nil",
                       vals |-> [j \in 1..(end.val - start.val + 1)
                                     |-> start.val + j - 1]]
    ELSE LET value == Atoi(part) IN
         IF value.err
         THEN [err |-> "invalid value in part", vals |-> <<>>]
         ELSE [err |-> "nil", vals |-> <<value.val>>]

\* The loops nested the other way round: the first octet varies fastest.
Combos_firstFastest(ranges) ==
    ConcatAll([id \in 1..Len(ranges[4]) |->
      ConcatAll([ic \in 1..Len(ranges[3]) |->
        ConcatAll([ib \in 1..Len(ranges[2]) |->
          [ia \in 1..Len(ranges[1]) |->
             <<ranges[1][ia], ranges[2][ib], ranges[3][ic], ranges[4][id]>>]])])])

\* The combinations in the order of the four nested loops (lines 77-80).
Combos(ranges) ==
    ConcatAll([ia \in 1..Len(ranges[1]) |->
      ConcatAll([ib \in 1..Len(ranges[2]) |->
        ConcatAll([ic \in 1..Len(ranges[3]) |->
          [id \in 1..Len(ranges[4]) |->
             <<ranges[1][ia], ranges[2][ib], ranges[3][ic], ranges[4][id]>>]])])])

\* The validity test of lines 82-83.
ValidOctets(q) == \A k \in 1..4 : q[k] >= 0 /\ q[k] <= 255

\* fmt.Sprintf("%d.%d.%d.%d", a, b, c, d).
FormatIP(q) ==
    Itoa(q[1]) \o <<".">> \o Itoa(q[2]) \o <<".">> \o Itoa(q[3])
        \o <<".">> \o Itoa(q[4])

\* Lines 86-88: the first combination that fails the test of lines 82-83
\* ends the function with (nil, error); the addresses appended to ips before
\* it are not returned.
OctetError_partialList(combos) ==
    LET bad == CHOOSE k \in 1..Len(combos) :
                   /\ ~ValidOctets(combos[k])
                   /\ \A j \in 1..(k - 1) : ValidOctets(combos[j])
    IN [err |-> "invalid IP address",
        ips |-> [k \in 1..(bad - 1) |-> FormatIP(combos[k])]]

\* The offending combinations skipped instead of refused, and the list of
\* the others returned as it is.
OctetError_skipped(combos) ==
    LET valid == {k \in 1..Len(combos) : ValidOctets(combos[k])}
        nth[n \in 1..Cardinality(valid)] ==
            CHOOSE k \in valid : Cardinality({j \in valid : j <= k}) = n
    IN [err |-> "nil",
        ips |-> [n \in 1..Cardinality(valid) |-> FormatIP(combos[nth[n]])]]

OctetError(combos) == [err |-> "invalid IP address", ips |-> <<>>]

\* parseIPRange: [err, ips]; err = "nil" is Go's nil error.
parseIPRange(s) ==
    LET parts == Split(s, ".") IN
    IF Len(parts) # 4
    THEN [err |-> "invalid IP range format", ips |-> <<>>]
    ELSE LET parsed == [i \in 1..4 |-> ParsePart(parts[i])]
             failed == {i \in 1..4 : parsed[i].err # "nil"}
         IN IF failed # {}
            THEN [err |-> parsed[CHOOSE i \in failed :
                                   \A j \in failed : i <= j].err,
                  ips |-> <<>>]
            ELSE LET combos == Combos([i \in 1..4 |-> parsed[i].vals])
                 IN IF \E k \in 1..Len(combos) : ~ValidOctets(combos[k])
                    THEN OctetError(combos)
                    ELSE IF Len(combos) = 0
                    THEN [err |-> "no valid IP addresses generated",
                          ips |-> <<>>]
                    ELSE [err |-> "nil",
                          ips |-> [k \in 1..Len(combos)
                                       |-> FormatIP(combos[k])]]

\* ------------------------------------------------------------------- state

VARIABLES
    faults,         \* stages of executeSSHCommand the hosts have failed so far
    ipRange,        \* os.Args[1] (or the default), as characters
    parseErr,       \* main's err of line 216: what parseIPRange returned
    flushErr,       \* what the deferred writer.Flush of line 166 returned
    pcMain,         \* position of main
    ips,            \* the targets parseIPRange returned
    idx,            \* position of the launch loop in ips (1-based)
    wg,             \* counter of the sync.WaitGroup
    semaphore,      \* number of tokens in the semaphore channel
    results,        \* buffer of the results channel (capacity Len(ips))
    resultsClosed,  \* close(results) has run
    task,           \* per target: the worker goroutine's position and locals
    pcCloser,       \* position of the goroutine of lines 261-264
    allResults,     \* the collector's list
    successCount,
    failedCount,
    outFile,        \* contents of os-results.txt; <<"absent">> before os.Create
    summary,        \* the counts printed at lines 287-288, <<>> before
    panicked        \* the runtime has aborted the process (send on a closed
                    \* channel, negative WaitGroup counter)

vars == <<faults, ipRange, parseErr, flushErr, pcMain, ips, idx, wg, semaphore,
          results, resultsClosed, task, pcCloser, allResults, successCount,
          failedCount, outFile, summary, panicked>>

\* ------------------------------------------------------------- environment

\* "10.0.0.1-<NumTargets>": a valid expression of NumTargets addresses.
RangeExpr == <<"1", "0", ".", "0", ".", "0", ".", "1", "-">> \o Itoa(NumTargets)

\* Expressions main is run with: a valid range and the spec's invalid octet.
ScanInputs ==
    { RangeExpr,
      <<"1", ".", "2", ".", "3", ".", "2", "5", "6">> }

\* What a remote command can print: text with white space around it and
\* inside it.
Outputs == { <<"\n", "a", " ", "b", " ">> }

\* The library's error text, one per stage of executeSSHCommand.
DialCause == "connection refused"
SessionCause == "open failed"
RunCause == "exit status 1"

NoFile == <<"absent">>

\* A goroutine that has not started or has returned: no locals. The nil
\* error of executeSSHCommand is the empty sequence.
\*   cmd      the command getOSInfo is running: 1 primary, 2 fallback
\*   output, err   getOSInfo's variables of those names
\*   conn, client, session   the open handles of isHostReachable and of
\*            executeSSHCommand
\*   reach    what isHostReachable returned ("unknown" before)
\*   attempts the calls of executeSSHCommand that have returned, in order,
\*            each with its command, whether it returned a nil error, and
\*            the output it returned
\*   ret      the error the last call of executeSSHCommand returned
NoTask(pc) ==
    [pc |-> pc, cmd |-> 0, output |-> <<>>, err |-> <<>>, conn |-> FALSE,
     client |-> FALSE, session |-> FALSE, reach |-> "unknown",
     attempts |-> <<>>, ret |-> <<>>]

\* ----------------------------------------------------------------- records

\* RemoteServer of lines 248-252.
UnreachableOutcome_noReason(ip) ==
    [IP |-> ip, OSInfo |-> <<>>, Success |-> FALSE, Error |-> <<>>]

UnreachableOutcome(ip) ==
    [IP |-> ip, OSInfo |-> <<>>, Success |-> FALSE,
     Error |-> <<"Host unreachable">>]

\* RemoteServer of lines 137, 145-146: both commands failed; err is the
\* value of getOSInfo's variable err.
FailOutcome(ip, err) ==
    [IP |-> ip, OSInfo |-> <<>>, Success |-> FALSE, Error |-> err]

\* RemoteServer of lines 137, 152-153.
OkOutcome_rawOutput(ip, output) ==
    [IP |-> ip, OSInfo |-> output, Success |-> TRUE, Error |-> <<>>]

OkOutcome(ip, output) ==
    [IP |-> ip, OSInfo |-> TrimSpace(output), Success |-> TRUE,
     Error |-> <<>>]

\* --------------------------------------------------------------------- Init

InitState(inputs) ==
    /\ ipRange \in inputs
    /\ faults = 0
    /\ parseErr = "nil"
    /\ flushErr = "nil"
    /\ pcMain = "parse"
    /\ ips = <<>>
    /\ idx = 1
    /\ wg = 0
    /\ semaphore = 0
    /\ results = <<>>
    /\ resultsClosed = FALSE
    /\ task = <<>>
    /\ pcCloser = "none"
    /\ allResults = <<>>
    /\ successCount = 0
    /\ failedCount = 0
    /\ outFile = NoFile
    /\ summary = <<>>
    /\ panicked = FALSE

Init == InitState(ScanInputs)

\* Parts the inputs of parseIPRange are built of: literals and ranges inside
\* and outside [0,255], an inverted range, an empty part, a non-numeric
\* part, an open range and a part with two '-'.
PartStrings ==
    { <<"0">>,
      <<"7">>,
      <<"0", "7">>,
      <<"2", "5", "5">>,
      <<"1", "-", "2">>,
      <<"2", "5", "4", "-", "2", "5", "5">>,
      <<"2", "5", "6">>,
      <<"2", "-", "1">>,
      <<"2", "5", "4", "-", "2", "5", "6">>,
      <<>>,
      <<"x">>,
      <<"1", "-">>,
      <<"1", "-", "2", "-", "3">> }

\* Join(parts) with '.' between the parts.
JoinDots(ps) ==
    ps[1] \o <<".">> \o ps[2] \o <<".">> \o ps[3] \o <<".">> \o ps[4]

\* Every expression of four such parts, and the expressions the
\* documentation names (also with three and five parts, and empty).
ParseInputs ==
    { JoinDots(ps) : ps \in [1..4 -> PartStrings] }
    \cup
    { <<"1", "9", "2", ".", "1", "6", "8", ".", "1", ".", "1">>,
      <<"1", "0", ".", "0", ".", "0", ".", "1", "-", "3">>,
      <<"1", ".", "2", ".", "3", ".", "2", "5", "6">>,
      <<"1", ".", "2", ".", "3">>,
      <<"1", ".", "2", ".", "3", ".", "4", ".", "5">>,
      <<>> }

InitParse == InitState(ParseInputs)

\* The range expression over the first k addresses, and its targets.
RangeOver(k) == <<"1", "0", ".", "0", ".", "0", ".", "1", "-">> \o Itoa(k)

TargetsOver(k) == parseIPRange(RangeOver(k)).ips

\* What the commands print on the hosts saveResultsToFile is run over: text
\* with white space around it, plain text, and text with '}', a newline,
\* '{' and ':' inside it.
SaveOutputs ==
    { <<" ", "a", "\n">>,
      <<"b">>,
      <<"a", "}", "\n", "{">> \o TargetsOver(2)[2] \o <<":", "b">> }

\* The outcomes the workers build for the target ip.
OutcomesOf(ip) ==
    { OkOutcome(ip, o) : o \in SaveOutputs }
    \cup { UnreachableOutcome(ip),
           FailOutcome(ip, <<"failed to execute command: ", RunCause>>) }

\* The lists of outcomes saveResultsToFile is run over: one outcome per
\* target of a range of up to NumTargets addresses, in any order.
ReportsOver(addrs) ==
    { r \in [1..Len(addrs) ->
                UNION { OutcomesOf(addrs[i]) : i \in 1..Len(addrs) }] :
        \A i \in 1..Len(addrs) : \E k \in 1..Len(addrs) : r[k].IP = addrs[i] }

Reports == UNION { ReportsOver(TargetsOver(k)) : k \in 1..NumTargets }

\* main at line 279 with the list allResults collected: every worker has
\* finished, the channel is closed and drained.
InitSave ==
    /\ allResults \in Reports
    /\ ipRange = RangeOver(Len(allResults))
    /\ parseErr = "nil"
    /\ flushErr = "nil"
    /\ faults = 0
    /\ pcMain = "save"
    /\ ips = TargetsOver(Len(allResults))
    /\ idx = Len(allResults) + 1
    /\ wg = 0
    /\ semaphore = 0
    /\ results = <<>>
    /\ resultsClosed = TRUE
    /\ task = [i \in 1..Len(allResults) |-> NoTask("finished")]
    /\ pcCloser = "done"
    /\ successCount =
          Cardinality({k \in 1..Len(allResults) : allResults[k].Success})
    /\ failedCount =
          Cardinality({k \in 1..Len(allResults) : ~allResults[k].Success})
    /\ outFile = NoFile
    /\ summary = <<>>
    /\ panicked = FALSE

\* --------------------------------------------------------------------- main

\* Where main goes when parseIPRange has returned an error: lines 217-220
\* print it and return.
AfterParseError_goesOn == "loop"

AfterParseError == "exit"

\* Lines 216-232: ips, err := parseIPRange(ipRange); on an error print it
\* and return, otherwise make the channels and enter the launch loop.
MainParse ==
    /\ ~panicked
    /\ pcMain = "parse"
    /\ LET r == parseIPRange(ipRange) IN
       /\ parseErr' = r.err
       /\ ips' = r.ips
       /\ IF r.err # "nil"
          THEN /\ pcMain' = AfterParseError
               /\ UNCHANGED task
          ELSE /\ pcMain' = "loop"
               /\ task' = [i \in 1..Len(r.ips) |-> NoTask("idle")]
    /\ UNCHANGED <<faults, ipRange, flushErr, idx, wg, semaphore, results,
                   resultsClosed, pcCloser, allResults, successCount,
                   failedCount, outFile, summary, panicked>>

\* Lines 235-236: the next target, wg.Add(1).
MainAdd ==
    /\ ~panicked
    /\ pcMain = "loop"
    /\ idx <= Len(ips)
    /\ wg' = wg + 1
    /\ pcMain' = "acquire"
    /\ UNCHANGED <<faults, ipRange, parseErr, flushErr, ips, idx, semaphore,
                   results, resultsClosed, task, pcCloser, allResults,
                   successCount, failedCount, outFile, summary, panicked>>

\* A send on the semaphore channel (capacity maxConcurrent, line 229) goes
\* through only while the buffer has room.
SemaphoreHasRoom_unbounded == TRUE

SemaphoreHasRoom == semaphore < maxConcurrent

\* Line 237: main itself acquires the slot, before it starts the goroutine.
MainAcquire ==
    /\ ~panicked
    /\ pcMain = "acquire"
    /\ SemaphoreHasRoom
    /\ semaphore' = semaphore + 1
    /\ pcMain' = "go"
    /\ UNCHANGED <<faults, ipRange, parseErr, flushErr, ips, idx, wg, results,
                   resultsClosed, task, pcCloser, allResults, successCount,
                   failedCount, outFile, summary, panicked>>

\* Lines 239-257: the go statement.
MainGo ==
    /\ ~panicked
    /\ pcMain = "go"
    /\ task' = [task EXCEPT ![idx] = NoTask("check")]
    /\ idx' = idx + 1
    /\ pcMain' = "loop"
    /\ UNCHANGED <<faults, ipRange, parseErr, flushErr, ips, wg, semaphore,
                   results, resultsClosed, pcCloser, allResults, successCount,
                   failedCount, outFile, summary, panicked>>

\* Lines 261-264: after the last target, start the goroutine that waits and
\* closes; main goes on to the collector loop.
MainStartCloser ==
    /\ ~panicked
    /\ pcMain = "loop"
    /\ idx > Len(ips)
    /\ pcCloser' = "wait"
    /\ pcMain' = "collect"
    /\ UNCHANGED <<faults, ipRange, parseErr, flushErr, ips, idx, wg,
                   semaphore, results, resultsClosed, task, allResults,
                   successCount, failedCount, outFile, summary, panicked>>

\* Lines 268-276: one iteration of the range loop over the channel.
MainCollect_prepends ==
    /\ ~panicked
    /\ pcMain = "collect"
    /\ Len(results) > 0
    /\ LET server == Head(results) IN
       /\ results' = Tail(results)
       /\ allResults' = <<server>> \o allResults
       /\ successCount' = IF server.Success THEN successCount + 1
                          ELSE successCount
       /\ failedCount' = IF server.Success THEN failedCount
                         ELSE failedCount + 1
    /\ UNCHANGED <<faults, ipRange, parseErr, flushErr, pcMain, ips, idx, wg,
                   semaphore, resultsClosed, task, pcCloser, outFile, summary,
                   panicked>>

MainCollect ==
    /\ ~panicked
    /\ pcMain = "collect"
    /\ Len(results) > 0
    /\ LET server == Head(results) IN
       /\ results' = Tail(results)
       /\ allResults' = Append(allResults, server)
       /\ successCount' = IF server.Success THEN successCount + 1
                          ELSE successCount
       /\ failedCount' = IF server.Success THEN failedCount
                         ELSE failedCount + 1
    /\ UNCHANGED <<faults, ipRange, parseErr, flushErr, pcMain, ips, idx, wg,
                   semaphore, resultsClosed, task, pcCloser, outFile, summary,
                   panicked>>

\* A range loop over a channel ends when the channel is closed and drained.
RangeEnds_whenEmpty == Len(results) = 0

RangeEnds == Len(results) = 0 /\ resultsClosed

\* Line 268/277: the range loop ends.
MainCollectEnd ==
    /\ ~panicked
    /\ pcMain = "collect"
    /\ RangeEnds
    /\ pcMain' = "save"
    /\ UNCHANGED <<faults, ipRange, parseErr, flushErr, ips, idx, wg,
                   semaphore, results, resultsClosed, task, pcCloser,
                   allResults, successCount, failedCount, outFile, summary,
                   panicked>>

\* Lines 171 and 177: fmt.Sprintf("{%s:%s}\n", ...).
FormatLine_payloadOnly(server) ==
    <<"{">> \o server.IP \o <<":">> \o server.OSInfo \o <<"}", "\n">>

FormatLine(server) ==
    <<"{">> \o server.IP \o <<":">>
        \o (IF server.Success THEN server.OSInfo ELSE server.Error)
        \o <<"}", "\n">>

\* What saveResultsToFile (lines 158-185) has written after n records.
FileContent(list, n) == ConcatAll([k \in 1..n |-> FormatLine(list[k])])

\* Lines 280-289: saveResultsToFile and what main does with its result.
\*  - os.Create fails: no file, the error is returned;
\*  - a WriteString fails (the bufio buffer was full and its flush failed):
\*    some records are in the file, the error is returned;
\*  - every WriteString succeeds and the deferred Flush fails: some records
\*    are in the file, and nil is returned (the Flush error is dropped);
\*  - all is written, nil is returned.
\* On an error main prints it and returns before the summary. A partial file
\* is cut here at a record boundary. A bufio.Writer keeps its first error, so
\* the deferred Flush fails too after a failed WriteString.
MainSave ==
    /\ ~panicked
    /\ pcMain = "save"
    /\ \/ /\ pcMain' = "saveFailed"
          /\ UNCHANGED <<outFile, summary, flushErr>>
       \/ /\ \E n \in 0..(Len(allResults) - 1) :
                outFile' = FileContent(allResults, n)
          /\ flushErr' = "write failed"
          /\ pcMain' = "saveFailed"
          /\ UNCHANGED summary
       \/ /\ \E n \in 0..(Len(allResults) - 1) :
                outFile' = FileContent(allResults, n)
          /\ flushErr' = "write failed"
          /\ summary' = <<successCount, failedCount>>
          /\ pcMain' = "done"
       \/ /\ outFile' = FileContent(allResults, Len(allResults))
          /\ flushErr' = "nil"
          /\ summary' = <<successCount, failedCount>>
          /\ pcMain' = "done"
    /\ UNCHANGED <<faults, ipRange, parseErr, ips, idx, wg, semaphore, results,
                   resultsClosed, task, pcCloser, allResults, successCount,
                   failedCount, panicked>>

Main ==
    \/ MainParse
    \/ MainAdd
    \/ MainAcquire
    \/ MainGo
    \/ MainStartCloser
    \/ MainCollect
    \/ MainCollectEnd
    \/ MainSave

\* ------------------------------------------------------------------- closer

\* Line 262: wg.Wait returns once the counter is zero.
CloserWait_noWait ==
    /\ ~panicked
    /\ pcCloser = "wait"
    /\ pcCloser' = "close"
    /\ UNCHANGED <<faults, ipRange, parseErr, flushErr, pcMain, ips, idx, wg,
                   semaphore, results, resultsClosed, task, allResults,
                   successCount, failedCount, outFile, summary, panicked>>

CloserWait ==
    /\ ~panicked
    /\ pcCloser = "wait"
    /\ wg = 0
    /\ pcCloser' = "close"
    /\ UNCHANGED <<faults, ipRange, parseErr, flushErr, pcMain, ips, idx, wg,
                   semaphore, results, resultsClosed, task, allResults,
                   successCount, failedCount, outFile, summary, panicked>>

\* Line 263: close(results).
CloserClose ==
    /\ ~panicked
    /\ pcCloser = "close"
    /\ resultsClosed' = TRUE
    /\ pcCloser' = "done"
    /\ UNCHANGED <<faults, ipRange, parseErr, flushErr, pcMain, ips, idx, wg,
                   semaphore, results, task, allResults, successCount,
                   failedCount, outFile, summary, panicked>>

Closer == CloserWait \/ CloserClose

\* ------------------------------------------------------------------ workers

\* A send on the results channel (capacity len(ips), line 225): it blocks
\* while the buffer is full and aborts the process if the channel is closed.
Capacity_asSemaphore == maxConcurrent

Capacity == Len(ips)

CanSend == Len(results) < Capacity \/ resultsClosed

Send(server) ==
    /\ results' = IF resultsClosed THEN results ELSE Append(results, server)
    /\ panicked' = resultsClosed

\* Line 247, isHostReachable lines 189-193: net.DialTimeout returns a
\* connection or an error.
TaskReachDial(i) ==
    /\ ~panicked
    /\ task[i].pc = "check"
    /\ \/ task' = [task EXCEPT ![i].conn = TRUE, ![i].pc = "reachClose"]
       \/ task' = [task EXCEPT ![i].reach = "no", ![i].pc = "sendUnreach"]
    /\ UNCHANGED <<faults, ipRange, parseErr, flushErr, pcMain, ips, idx, wg,
                   semaphore, results, resultsClosed, pcCloser, allResults,
                   successCount, failedCount, outFile, summary, panicked>>

\* isHostReachable lines 194-195, then line 256 and getOSInfo lines 137-140:
\* the connection is closed, true is returned, getOSInfo starts the primary
\* command.
TaskReachClose(i) ==
    /\ ~panicked
    /\ task[i].pc = "reachClose"
    /\ task' = [task EXCEPT ![i].conn = FALSE, ![i].reach = "yes",
                            ![i].cmd = 1, ![i].pc = "dial"]
    /\ UNCHANGED <<faults, ipRange, parseErr, flushErr, pcMain, ips, idx, wg,
                   semaphore, results, resultsClosed, pcCloser, allResults,
                   successCount, failedCount, outFile, summary, panicked>>

\* Where the goroutine goes after it has sent the unreachable outcome: the
\* return of line 253 leads to the deferred release.
AfterUnreachable_noReturn == [pc |-> "dial", cmd |-> 1]

AfterUnreachable_noRelease == [pc |-> "finished", cmd |-> 0]

\* The unreachable branch made to run wg.Done like the other two.
AfterUnreachable_wgDone == [pc |-> "wgDone", cmd |-> 0]

AfterUnreachable == [pc |-> "release", cmd |-> 0]

\* Lines 248-253.
TaskSendUnreach(i) ==
    /\ ~panicked
    /\ task[i].pc = "sendUnreach"
    /\ CanSend
    /\ Send(UnreachableOutcome(ips[i]))
    /\ task' = [task EXCEPT ![i].pc = AfterUnreachable.pc,
                            ![i].cmd = AfterUnreachable.cmd]
    /\ UNCHANGED <<faults, ipRange, parseErr, flushErr, pcMain, ips, idx, wg,
                   semaphore, resultsClosed, pcCloser, allResults,
                   successCount, failedCount, outFile, summary>>

\* getOSInfo lines 140-150 when executeSSHCommand returns (out, err) to the
\* goroutine t: the deferred Close calls have run; a nil error leads to the
\* success branch, a failed primary to the fallback, a failed fallback to the
\* failure branch. The results of a failed primary call are tested at line
\* 141 and overwritten at line 143 without being read again: output and err
\* are kept from the call whose results getOSInfo goes on to use.
AfterExec_fallbackAlways(t, out, err) ==
    LET t1 == [t EXCEPT !.ret = err,
                        !.client = FALSE, !.session = FALSE,
                        !.attempts = Append(@, [cmd |-> t.cmd,
                                                ok |-> err = <<>>,
                                                out |-> out])]
    IN IF t.cmd = 1 THEN [t1 EXCEPT !.cmd = 2, !.pc = "dial"]
       ELSE IF err = <<>>
       THEN [t1 EXCEPT !.output = out, !.err = err, !.pc = "sendOk"]
       ELSE [t1 EXCEPT !.output = out, !.err = err, !.pc = "sendFail"]

\* The fallback's results assigned to new variables that shadow output and
\* err (":=" for "=" at line 143): getOSInfo goes on with the primary's.
AfterExec_shadowed(t, out, err) ==
    LET t1 == [t EXCEPT !.ret = err,
                        !.client = FALSE, !.session = FALSE,
                        !.attempts = Append(@, [cmd |-> t.cmd,
                                                ok |-> err = <<>>,
                                                out |-> out])]
        t2 == IF t.cmd = 1 THEN [t1 EXCEPT !.output = out, !.err = err]
              ELSE t1
    IN IF err = <<>> THEN [t2 EXCEPT !.pc = "sendOk"]
       ELSE IF t.cmd = 1 THEN [t2 EXCEPT !.cmd = 2, !.pc = "dial"]
       ELSE [t2 EXCEPT !.pc = "sendFail"]

\* executeSSHCommand without its two deferred Close calls (lines 117, 123).
AfterExec_noClose(t, out, err) ==
    LET t1 == [t EXCEPT !.ret = err,
                        !.attempts = Append(@, [cmd |-> t.cmd,
                                                ok |-> err = <<>>,
                                                out |-> out])]
    IN IF err = <<>>
       THEN [t1 EXCEPT !.output = out, !.err = err, !.pc = "sendOk"]
       ELSE IF t.cmd = 1 THEN [t1 EXCEPT !.cmd = 2, !.pc = "dial"]
       ELSE [t1 EXCEPT !.output = out, !.err = err, !.pc = "sendFail"]

AfterExec(t, out, err) ==
    LET t1 == [t EXCEPT !.ret = err,
                        !.client = FALSE, !.session = FALSE,
                        !.attempts = Append(@, [cmd |-> t.cmd,
                                                ok |-> err = <<>>,
                                                out |-> out])]
    IN IF err = <<>>
       THEN [t1 EXCEPT !.output = out, !.err = err, !.pc = "sendOk"]
       ELSE IF t.cmd = 1 THEN [t1 EXCEPT !.cmd = 2, !.pc = "dial"]
       ELSE [t1 EXCEPT !.output = out, !.err = err, !.pc = "sendFail"]

\* executeSSHCommand lines 113-117: ssh.Dial.
TaskDial(i) ==
    /\ ~panicked
    /\ task[i].pc = "dial"
    /\ \/ /\ task' = [task EXCEPT ![i].client = TRUE, ![i].pc = "session"]
          /\ UNCHANGED faults
       \/ /\ faults < MaxFaults
          /\ faults' = faults + 1
          /\ task' = [task EXCEPT ![i] =
                     AfterExec(@, <<>>, <<"failed to dial: ", DialCause>>)]
    /\ UNCHANGED <<ipRange, parseErr, flushErr, pcMain, ips, idx, wg,
                   semaphore, results, resultsClosed, pcCloser, allResults,
                   successCount, failedCount, outFile, summary, panicked>>

\* executeSSHCommand lines 119-123: client.NewSession.
TaskSession(i) ==
    /\ ~panicked
    /\ task[i].pc = "session"
    /\ \/ /\ task' = [task EXCEPT ![i].session = TRUE, ![i].pc = "run"]
          /\ UNCHANGED faults
       \/ /\ faults < MaxFaults
          /\ faults' = faults + 1
          /\ task' = [task EXCEPT ![i] =
                     AfterExec(@, <<>>,
                               <<"failed to create session: ", SessionCause>>)]
    /\ UNCHANGED <<ipRange, parseErr, flushErr, pcMain, ips, idx, wg,
                   semaphore, results, resultsClosed, pcCloser, allResults,
                   successCount, failedCount, outFile, summary, panicked>>

\* executeSSHCommand lines 125-130: session.Output.
TaskRun(i) ==
    /\ ~panicked
    /\ task[i].pc = "run"
    /\ \/ /\ \E out \in Outputs :
                task' = [task EXCEPT ![i] = AfterExec(@, out, <<>>)]
          /\ UNCHANGED faults
       \/ /\ faults < MaxFaults
          /\ faults' = faults + 1
          /\ task' = [task EXCEPT ![i] =
                     AfterExec(@, <<>>,
                               <<"failed to execute command: ", RunCause>>)]
    /\ UNCHANGED <<ipRange, parseErr, flushErr, pcMain, ips, idx, wg,
                   semaphore, results, resultsClosed, pcCloser, allResults,
                   successCount, failedCount, outFile, summary, panicked>>

\* Where getOSInfo goes after it has sent the failed outcome: the return of
\* line 148 leads to the deferred wg.Done.
AfterSendFail_noReturn == "sendOk"

AfterSendFail == "wgDone"

\* getOSInfo lines 145-148.
TaskSendFail(i) ==
    /\ ~panicked
    /\ task[i].pc = "sendFail"
    /\ CanSend
    /\ Send(FailOutcome(ips[i], task[i].err))
    /\ task' = [task EXCEPT ![i].pc = AfterSendFail]
    /\ UNCHANGED <<faults, ipRange, parseErr, flushErr, pcMain, ips, idx, wg,
                   semaphore, resultsClosed, pcCloser, allResults,
                   successCount, failedCount, outFile, summary>>

\* getOSInfo lines 152-154.
TaskSendOk_counts(i) ==
    /\ ~panicked
    /\ task[i].pc = "sendOk"
    /\ CanSend
    /\ Send(OkOutcome(ips[i], task[i].output))
    /\ successCount' = successCount + 1
    /\ task' = [task EXCEPT ![i].pc = "wgDone"]
    /\ UNCHANGED <<faults, ipRange, parseErr, flushErr, pcMain, ips, idx, wg,
                   semaphore, resultsClosed, pcCloser, allResults,
                   failedCount, outFile, summary>>

TaskSendOk(i) ==
    /\ ~panicked
    /\ task[i].pc = "sendOk"
    /\ CanSend
    /\ Send(OkOutcome(ips[i], task[i].output))
    /\ task' = [task EXCEPT ![i].pc = "wgDone"]
    /\ UNCHANGED <<faults, ipRange, parseErr, flushErr, pcMain, ips, idx, wg,
                   semaphore, resultsClosed, pcCloser, allResults,
                   successCount, failedCount, outFile, summary>>

\* getOSInfo line 135: the deferred wg.Done, and getOSInfo returns (its
\* locals are gone); a counter below zero aborts the process.
TaskWgDone(i) ==
    /\ ~panicked
    /\ task[i].pc = "wgDone"
    /\ wg' = IF wg > 0 THEN wg - 1 ELSE wg
    /\ panicked' = (wg = 0)
    /\ task' = [task EXCEPT ![i] = [NoTask("release") EXCEPT !.reach = "yes"]]
    /\ UNCHANGED <<faults, ipRange, parseErr, flushErr, pcMain, ips, idx,
                   semaphore, results, resultsClosed, pcCloser, allResults,
                   successCount, failedCount, outFile, summary>>

\* Lines 240-242: the deferred receive from the semaphore; the goroutine ends.
TaskRelease_keepsSlot(i) ==
    /\ ~panicked
    /\ task[i].pc = "release"
    /\ task' = [task EXCEPT ![i] = NoTask("finished")]
    /\ UNCHANGED <<faults, ipRange, parseErr, flushErr, pcMain, ips, idx, wg,
                   semaphore, results, resultsClosed, pcCloser, allResults,
                   successCount, failedCount, outFile, summary, panicked>>

TaskRelease(i) ==
    /\ ~panicked
    /\ task[i].pc = "release"
    /\ semaphore > 0
    /\ semaphore' = semaphore - 1
    /\ task' = [task EXCEPT ![i] = NoTask("finished")]
    /\ UNCHANGED <<faults, ipRange, parseErr, flushErr, pcMain, ips, idx, wg,
                   results, resultsClosed, pcCloser, allResults, successCount,
                   failedCount, outFile, summary, panicked>>

Task(i) ==
    \/ TaskReachDial(i)
    \/ TaskReachClose(i)
    \/ TaskSendUnreach(i)
    \/ TaskDial(i)
    \/ TaskSession(i)
    \/ TaskRun(i)
    \/ TaskSendFail(i)
    \/ TaskSendOk(i)
    \/ TaskWgDone(i)
    \/ TaskRelease(i)

\* ------------------------------------------------------------ specifications

Next ==
    \/ Main
    \/ Closer
    \/ \E i \in 1..Len(task) : Task(i)

Spec == Init /\ [][Next]_vars

\* parseIPRange alone, over ParseInputs.
SpecParse == InitParse /\ [][MainParse]_vars

\* saveResultsToFile alone, over Reports.
SpecSave == InitSave /\ [][MainSave]_vars

\* The steps of the scan proper: each step but main's first, the parse.
Scan ==
    \/ MainAdd
    \/ MainAcquire
    \/ MainGo
    \/ MainStartCloser
    \/ MainCollect
    \/ MainCollectEnd
    \/ MainSave
    \/ Closer
    \/ \E i \in 1..Len(task) : Task(i)

\* The Go scheduler runs every runnable goroutine, and every network
\* operation returns: while some goroutine can take a step of the scan, one
\* is taken. Every behaviour of Spec is finite (each step advances a
\* goroutine that never goes back), so a fair behaviour ends only where no
\* goroutine can take a step, which is also what fairness for each
\* goroutine gives.
FairSpec == Spec /\ WF_vars(Scan)

\* ------------------------------------------------------------------- claims

Tasks == 1..Len(task)

\* Every outcome sent so far is in allResults (received) or in results
\* (buffered): the k-th of them, received ones first.
NumSent == Len(allResults) + Len(results)

SentAt(k) ==
    IF k <= Len(allResults) THEN allResults[k]
    ELSE results[k - Len(allResults)]

\* Positions among the sent outcomes of those of target i (the targets of a
\* scan are pairwise distinct addresses).
OutcomesFor(i) == {k \in 1..NumSent : SentAt(k).IP = ips[i]}

\* The worker of target i is past its send.
PastSend(i) == task[i].pc \in {"wgDone", "release", "finished"}

InExec(i) == task[i].pc \in {"dial", "session", "run"}

\* p is raw without its leading and trailing white space, stated without
\* TrimSpace: raw = white \o p \o white, and p neither starts nor ends with
\* white space.
IsTrimOf(p, raw) ==
    /\ \E a \in 0..Len(raw) : \E b \in 0..(Len(raw) - a) :
          /\ p = SubSeq(raw, a + 1, Len(raw) - b)
          /\ \A k \in 1..a : raw[k] \in White
          /\ \A k \in (Len(raw) - b + 1)..Len(raw) : raw[k] \in White
    /\ Len(p) > 0 => p[1] \notin White /\ p[Len(p)] \notin White

PrimaryFailedFallbackOk(i) ==
    /\ Len(task[i].attempts) = 2
    /\ task[i].attempts[1].cmd = 1 /\ ~task[i].attempts[1].ok
    /\ task[i].attempts[2].cmd = 2 /\ task[i].attempts[2].ok

BothFailed(i) ==
    /\ Len(task[i].attempts) = 2
    /\ task[i].attempts[1].cmd = 1 /\ ~task[i].attempts[1].ok
    /\ task[i].attempts[2].cmd = 2 /\ ~task[i].attempts[2].ok

\* C1: every worker puts exactly one outcome on the results channel: none
\* before its send, one from its send on, never two, on every branch; and no
\* worker is cut short by a runtime abort.
C1_ExactlyOneOutcome ==
    /\ ~panicked
    /\ \A i \in Tasks :
          Cardinality(OutcomesFor(i)) = IF PastSend(i) THEN 1 ELSE 0

\* All workers have finished, over a mix of an unreachable host, a host
\* whose commands both failed and a host that answered.
C1_Witness ==
    /\ Len(task) = NumTargets
    /\ \A i \in Tasks : task[i].pc = "finished"
    /\ \E k \in 1..NumSent : SentAt(k).Error = <<"Host unreachable">>
    /\ \E k \in 1..NumSent : SentAt(k).Success
    /\ \E k \in 1..NumSent :
          ~SentAt(k).Success /\ SentAt(k).Error # <<"Host unreachable">>

\* C2: once the launch loop has been entered the scan completes: main leaves
\* the collector loop and reaches the write-results step.
C2_ScanCompletes == (pcMain = "loop") ~> (pcMain = "save")

\* C3: when the collector loop has ended, successCount + failedCount is the
\* number of targets and allResults has that many entries.
C3_CountsAddUp ==
    pcMain \in {"save", "saveFailed", "done"} =>
        /\ successCount + failedCount = Len(ips)
        /\ Len(allResults) = Len(ips)
        /\ Len(ips) = NumTargets

\* The report is final and holds successes and failures.
C3_Witness ==
    /\ pcMain = "save"
    /\ successCount > 0
    /\ failedCount > 0

\* C4: at most maxConcurrent workers are between the acquisition and the
\* release of their slot, and only such a worker holds an open reachability
\* connection, SSH client or SSH session: so at most that many are open at
\* once.
C4_ConcurrencyCap ==
    /\ semaphore <= maxConcurrent
    /\ Cardinality({i \in Tasks : task[i].pc \notin {"idle", "finished"}})
          <= maxConcurrent
    /\ \A i \in Tasks :
          (task[i].conn \/ task[i].client \/ task[i].session)
              => task[i].pc \notin {"idle", "finished"}

\* More targets than slots: maxConcurrent sessions are open and main waits
\* for a slot for the next target.
C4_Witness ==
    /\ Len(ips) > maxConcurrent
    /\ pcMain = "acquire"
    /\ idx <= Len(ips)
    /\ Cardinality({i \in Tasks : task[i].session}) = maxConcurrent

\* C5: a worker is inside or past an SSH attempt only if its reachability
\* probe returned true; a worker whose probe returned false has made none.
C5_SessionOnlyIfReachable ==
    \A i \in Tasks :
        /\ (InExec(i) \/ task[i].client \/ task[i].session
              \/ task[i].attempts # <<>>
              \/ task[i].pc \in {"sendOk", "sendFail", "wgDone"})
           => task[i].reach = "yes"
        /\ task[i].reach = "no"
           => /\ task[i].attempts = <<>>
              /\ task[i].pc \in {"sendUnreach", "release"}

\* One worker has sent the unreachable outcome without any attempt while
\* another, reachable, has a session open.
C5_Witness ==
    \E i \in Tasks : \E j \in Tasks :
        /\ task[i].reach = "no" /\ task[i].pc = "release"
        /\ task[j].reach = "yes" /\ task[j].session

\* The line of the unreachable target i is in the result file.
UnreachableInFile(i) ==
    LET line == FormatLine(UnreachableOutcome(ips[i])) IN
    \E k \in 1..Len(outFile) :
        SubSeq(outFile, k, k + Len(line) - 1) = line

\* C6: a target whose reachability probe returned false is recorded as
\* failed with the fixed reason and an empty payload, and that record reaches
\* the report and, when the file is written in full, the result file.
C6_UnreachableRecorded ==
    \A i \in 1..NumTargets :
        (i \in Tasks /\ task[i].reach = "no")
        ~> /\ pcMain \in {"saveFailed", "done"}
           /\ \E k \in 1..Len(allResults) :
                 allResults[k] = UnreachableOutcome(ips[i])
           /\ outFile = FileContent(allResults, Len(allResults))
                 => UnreachableInFile(i)

\* C7: primary failed, fallback succeeded: the outcome is a success, its
\* payload is the fallback's output without surrounding white space, and its
\* error is empty.
C7_FallbackSuccess ==
    \A i \in Tasks :
        (task[i].pc = "wgDone" /\ PrimaryFailedFallbackOk(i)) =>
            /\ OutcomesFor(i) # {}
            /\ \A k \in OutcomesFor(i) :
                  /\ SentAt(k).Success
                  /\ SentAt(k).Error = <<>>
                  /\ IsTrimOf(SentAt(k).OSInfo, task[i].attempts[2].out)

\* A worker has just sent the outcome of a successful fallback whose output
\* had white space around it.
C7_Witness ==
    \E i \in Tasks :
        /\ task[i].pc = "wgDone"
        /\ PrimaryFailedFallbackOk(i)
        /\ task[i].attempts[2].out[1] \in White
        /\ OutcomesFor(i) # {}

\* C8: both commands failed: the outcome is a failure with an empty payload
\* whose reason is the error the second (fallback) call returned.
C8_BothFailed ==
    \A i \in Tasks :
        (task[i].pc = "wgDone" /\ BothFailed(i)) =>
            /\ OutcomesFor(i) # {}
            /\ \A k \in OutcomesFor(i) :
                  /\ ~SentAt(k).Success
                  /\ SentAt(k).OSInfo = <<>>
                  /\ SentAt(k).Error = task[i].ret
                  /\ SentAt(k).Error # <<>>

\* A worker has just sent the outcome of two failed commands, the fallback
\* having failed when the command was run.
C8_Witness ==
    \E i \in Tasks :
        /\ task[i].pc = "wgDone"
        /\ BothFailed(i)
        /\ task[i].ret = <<"failed to execute command: ", RunCause>>
        /\ OutcomesFor(i) # {}

\* C9: the primary command is attempted first, the fallback once and only
\* after a failed primary, nothing is retried: at most two attempts, exactly
\* one when the primary succeeds, exactly two when it fails.
C9_AttemptOrder ==
    \A i \in Tasks :
        LET a == task[i].attempts IN
        /\ Len(a) <= 2
        /\ Len(a) >= 1 => a[1].cmd = 1
        /\ Len(a) = 2 => ~a[1].ok /\ a[2].cmd = 2
        /\ InExec(i) =>
              \/ task[i].cmd = 1 /\ a = <<>>
              \/ task[i].cmd = 2 /\ Len(a) = 1 /\ ~a[1].ok
        /\ task[i].pc \in {"sendOk", "sendFail", "wgDone"} =>
              \/ Len(a) = 1 /\ a[1].ok
              \/ Len(a) = 2

\* One worker is done after a single, successful attempt while another is
\* done after two.
C9_Witness ==
    \E i \in Tasks : \E j \in Tasks :
        /\ task[i].pc = "wgDone" /\ Len(task[i].attempts) = 1
        /\ task[j].pc = "wgDone" /\ Len(task[j].attempts) = 2

\* The pieces of s between its dots, by position.
DotPositions(s) == {k \in 1..Len(s) : s[k] = "."}

IsNumeral(p) == Len(p) > 0 /\ \A k \in 1..Len(p) : IsDigit(p[k])

\* A part of a valid expression: a literal in 0..255, or start-end with
\* start <= end <= 255.
ValidPart(p) ==
    \/ IsNumeral(p) /\ DecVal(p) <= 255
    \/ \E k \in 1..Len(p) :
          /\ p[k] = "-"
          /\ IsNumeral(SubSeq(p, 1, k - 1))
          /\ IsNumeral(SubSeq(p, k + 1, Len(p)))
          /\ DecVal(SubSeq(p, 1, k - 1)) <= DecVal(SubSeq(p, k + 1, Len(p)))
          /\ DecVal(SubSeq(p, k + 1, Len(p))) <= 255

\* Number of values a valid part denotes.
PartSize(p) ==
    IF IsNumeral(p) THEN 1
    ELSE LET k == CHOOSE j \in 1..Len(p) : p[j] = "-"
         IN DecVal(SubSeq(p, k + 1, Len(p))) - DecVal(SubSeq(p, 1, k - 1)) + 1

\* The four pieces of a string with exactly three dots.
Piece(s, n) ==
    LET d == DotPositions(s)
        before == {k \in d : Cardinality({m \in d : m < k}) = n - 2}
        after  == {k \in d : Cardinality({m \in d : m < k}) = n - 1}
        from == IF n = 1 THEN 1 ELSE (CHOOSE k \in before : TRUE) + 1
        to   == IF n = 4 THEN Len(s) ELSE (CHOOSE k \in after : TRUE) - 1
    IN SubSeq(s, from, to)

ValidExpr(s) ==
    /\ Cardinality(DotPositions(s)) = 3
    /\ \A n \in 1..4 : ValidPart(Piece(s, n))

\* A dotted four-octet address with every octet in [0,255].
IsDottedQuad(s) ==
    /\ Cardinality(DotPositions(s)) = 3
    /\ \A n \in 1..4 : IsNumeral(Piece(s, n)) /\ DecVal(Piece(s, n)) <= 255

\* C10: for a valid expression parseIPRange succeeds with as many addresses
\* as the product of the four range sizes, pairwise distinct, each a dotted
\* four-octet address; "192.168.1.1" yields that one address.
C10_ExpansionCount ==
    (pcMain # "parse" /\ ValidExpr(ipRange)) =>
        /\ pcMain = "loop"
        /\ Len(ips) = PartSize(Piece(ipRange, 1)) * PartSize(Piece(ipRange, 2))
                        * PartSize(Piece(ipRange, 3)) * PartSize(Piece(ipRange, 4))
        /\ \A j \in 1..Len(ips) : \A k \in 1..Len(ips) :
              j # k => ips[j] # ips[k]
        /\ \A k \in 1..Len(ips) : IsDottedQuad(ips[k])
        /\ ipRange = <<"1", "9", "2", ".", "1", "6", "8", ".", "1", ".", "1">>
              => ips = <<ipRange>>

\* A valid expression with a range in every part has been expanded.
C10_Witness ==
    /\ pcMain = "loop"
    /\ ValidExpr(ipRange)
    /\ \A n \in 1..4 : PartSize(Piece(ipRange, n)) = 2
    /\ Len(ips) = 16

\* First value a valid part denotes.
PartStart(p) ==
    IF IsNumeral(p) THEN DecVal(p)
    ELSE LET k == CHOOSE j \in 1..Len(p) : p[j] = "-"
         IN DecVal(SubSeq(p, 1, k - 1))

\* C11: the addresses come in the lexicographic order of their octet tuples,
\* fourth octet fastest and first slowest, each part ascending from its
\* start: the k-th address has, in part n, the start of the part plus the
\* n-th digit of k-1 written in the mixed radix of the four part sizes; and
\* "10.0.0.1-3" yields 10.0.0.1, 10.0.0.2, 10.0.0.3 in that order.
C11_ExpansionOrder ==
    (pcMain = "loop" /\ ValidExpr(ipRange)) =>
        LET size(n)  == PartSize(Piece(ipRange, n))
            start(n) == PartStart(Piece(ipRange, n))
            octet(k, n) == DecVal(Piece(ips[k], n))
        IN /\ \A k \in 1..Len(ips) :
                 LET m == k - 1 IN
                 /\ octet(k, 4) = start(4) + (m % size(4))
                 /\ octet(k, 3) = start(3) + ((m \div size(4)) % size(3))
                 /\ octet(k, 2) =
                       start(2) + ((m \div (size(4) * size(3))) % size(2))
                 /\ octet(k, 1) =
                       start(1) + (m \div (size(4) * size(3) * size(2)))
           /\ ipRange = <<"1", "0", ".", "0", ".", "0", ".", "1", "-", "3">>
                 => ips = << <<"1", "0", ".", "0", ".", "0", ".", "1">>,
                             <<"1", "0", ".", "0", ".", "0", ".", "2">>,
                             <<"1", "0", ".", "0", ".", "0", ".", "3">> >>

\* Four ranges of two values have been expanded: the second address differs
\* from the first in the fourth octet, the ninth in the first octet.
C11_Witness ==
    /\ pcMain = "loop"
    /\ ValidExpr(ipRange)
    /\ \A n \in 1..4 : PartSize(Piece(ipRange, n)) = 2
    /\ Piece(ips[2], 4) # Piece(ips[1], 4)
    /\ Piece(ips[2], 1) = Piece(ips[1], 1)
    /\ Piece(ips[9], 1) # Piece(ips[1], 1)

\* A decimal number as strconv.Atoi reads one: digits, or '+' and digits (a
\* '-' never reaches Atoi, the part is split at it).
IsNumber(p) ==
    \/ IsNumeral(p)
    \/ Len(p) > 1 /\ p[1] = "+" /\ IsNumeral(Tail(p))

NumberVal(p) == IF p[1] = "+" THEN DecVal(Tail(p)) ELSE DecVal(p)

Dashes(p) == {k \in 1..Len(p) : p[k] = "-"}

\* A part that is no number and no range of two numbers start-end with
\* start <= end.
BadPart(p) ==
    \/ Cardinality(Dashes(p)) > 1
    \/ Dashes(p) = {} /\ ~IsNumber(p)
    \/ /\ Cardinality(Dashes(p)) = 1
       /\ LET k == CHOOSE j \in Dashes(p) : TRUE
              a == SubSeq(p, 1, k - 1)
              b == SubSeq(p, k + 1, Len(p))
          IN \/ ~IsNumber(a)
             \/ ~IsNumber(b)
             \/ IsNumber(a) /\ IsNumber(b) /\ NumberVal(a) > NumberVal(b)

Malformed(s) ==
    \/ Cardinality(DotPositions(s)) # 3
    \/ /\ Cardinality(DotPositions(s)) = 3
       /\ \E n \in 1..4 : BadPart(Piece(s, n))

\* C12: an expression without exactly four dot-separated parts, with a part
\* or a range bound that is empty or no number, with a part that has more
\* than one '-', or with a range whose start exceeds its end, makes
\* parseIPRange return an error and no address list; "1.2.3" is refused for
\* its number of parts.
C12_MalformedRejected ==
    (pcMain # "parse" /\ Malformed(ipRange)) =>
        /\ parseErr # "nil"
        /\ ips = <<>>
        /\ pcMain = "exit"
        /\ Cardinality(DotPositions(ipRange)) # 3
              => parseErr = "invalid IP range format"

\* An expression whose first three parts are valid and whose fourth is the
\* inverted range 2-1 has been refused for that range.
C12_Witness ==
    /\ pcMain = "exit"
    /\ Cardinality(DotPositions(ipRange)) = 3
    /\ \A n \in 1..3 : ValidPart(Piece(ipRange, n))
    /\ Piece(ipRange, 4) = <<"2", "-", "1">>
    /\ parseErr = "start cannot be greater than end in part"
    /\ ips = <<>>

\* Last (largest) value a well-formed part denotes.
PartEnd(p) ==
    IF Dashes(p) = {} THEN NumberVal(p)
    ELSE LET k == CHOOSE j \in Dashes(p) : TRUE
         IN NumberVal(SubSeq(p, k + 1, Len(p)))

\* A well-formed expression one of whose parts denotes a value above 255
\* (no part denotes a negative one: a '-' makes a range).
OctetOutOfRange(s) ==
    /\ ~Malformed(s)
    /\ \E n \in 1..4 : PartEnd(Piece(s, n)) > 255

\* C13: when a part denotes a value outside [0,255], as a single value or
\* as a range that crosses 255, parseIPRange returns the invalid-address
\* error and no address at all: what was generated before the offending
\* combination is not returned. "1.2.3.256" is such an expression.
C13_OctetRangeRejected ==
    /\ (pcMain # "parse" /\ OctetOutOfRange(ipRange)) =>
          /\ parseErr = "invalid IP address"
          /\ ips = <<>>
          /\ pcMain = "exit"
    /\ OctetOutOfRange(<<"1", ".", "2", ".", "3", ".", "2", "5", "6">>)

\* An expression whose fourth part is the range 254-256 has been refused:
\* the combinations with 254 and 255 came before the offending one.
C13_Witness ==
    /\ pcMain = "exit"
    /\ Cardinality(DotPositions(ipRange)) = 3
    /\ \A n \in 1..3 : ValidPart(Piece(ipRange, n))
    /\ Piece(ipRange, 4) = <<"2", "5", "4", "-", "2", "5", "6">>
    /\ parseErr = "invalid IP address"
    /\ ips = <<>>

\* C14: once parseIPRange has returned an error main has ended, and nothing
\* of the scan has happened or happens: no worker was launched (so no
\* reachability probe and no session was attempted), no slot or WaitGroup
\* count is held, nothing was sent or collected, and os-results.txt was
\* neither created nor truncated.
C14_ParseErrorEndsRun ==
    (pcMain # "parse" /\ parseErr # "nil") =>
        /\ pcMain = "exit"
        /\ task = <<>>
        /\ idx = 1 /\ wg = 0 /\ semaphore = 0
        /\ pcCloser = "none"
        /\ results = <<>> /\ allResults = <<>>
        /\ outFile = NoFile
        /\ summary = <<>>

\* The run over "1.2.3.256" has ended on the parse error.
C14_Witness ==
    /\ pcMain = "exit"
    /\ ipRange = <<"1", ".", "2", ".", "3", ".", "2", "5", "6">>
    /\ parseErr = "invalid IP address"
    /\ outFile = NoFile

\* file is, record after record, what the claim describes for list: '{',
\* the address, ':', the payload of a successful outcome or the reason of a
\* failed one, '}' and a newline, nothing before, between or after.
RECURSIVE IsRecordsOf(_, _)
IsRecordsOf(file, list) ==
    IF list = <<>> THEN file = <<>>
    ELSE LET rec  == Head(list)
             text == IF rec.Success THEN rec.OSInfo ELSE rec.Error
             a    == Len(rec.IP)
             n    == a + Len(text) + 4
         IN /\ Len(file) >= n
            /\ file[1] = "{"
            /\ SubSeq(file, 2, a + 1) = rec.IP
            /\ file[a + 2] = ":"
            /\ SubSeq(file, a + 3, n - 2) = text
            /\ file[n - 1] = "}"
            /\ file[n] = "\n"
            /\ IsRecordsOf(SubSeq(file, n + 1, Len(file)), Tail(list))

\* saveResultsToFile has returned nil and every write went through.
Saved == pcMain = "done" /\ flushErr = "nil"

\* C15: when saveResultsToFile has written the report, the file holds one
\* record per outcome in the order of the report, {address:payload} for a
\* success and {address:reason} for a failure, each ended by a newline,
\* with no header and no trailing summary.
C15_RecordsWritten == Saved => IsRecordsOf(outFile, allResults)

\* A report of NumTargets outcomes, successes and failures among them, has
\* been written.
C15_Witness ==
    /\ Saved
    /\ Len(allResults) = NumTargets
    /\ \E k \in 1..Len(allResults) : allResults[k].Success
    /\ \E k \in 1..Len(allResults) : ~allResults[k].Success
    /\ Len(outFile) > 0

\* C16: the written file determines the report: no other report of Reports
\* is written as the same file, so that the records can be parsed back into
\* the outcomes in their order, also when a payload has a newline, ':' or
\* '}' inside it.
C16_RoundTrip ==
    Saved => \A r \in Reports :
                 FileContent(r, Len(r)) = outFile => r = allResults

\* C17: when saveResultsToFile has returned an error, main has printed the
\* aggregated success and failure counts all the same.
C17_CountsReported ==
    pcMain = "saveFailed" => summary = <<successCount, failedCount>>

\* C18: the results channel is closed (and wg.Wait has returned) only when
\* every target has been launched, every worker has sent its outcome and
\* all have joined (the WaitGroup counter is back at zero, every worker is
\* past its wg.Done); no worker sends on the closed channel (the send would abort the
\* process); and when the collector loop has ended the channel is closed and
\* empty and every outcome sent is in the report.
C18_CloseAfterAllSent ==
    /\ ~panicked
    /\ (resultsClosed \/ pcCloser \in {"close", "done"}) =>
          /\ idx > Len(ips)
          /\ wg = 0
          /\ \A i \in Tasks : task[i].pc \in {"release", "finished"}
          /\ NumSent = Len(ips)
    /\ pcMain \in {"save", "saveFailed", "done"} =>
          /\ resultsClosed
          /\ results = <<>>
          /\ \A i \in Tasks :
                 \E k \in 1..Len(allResults) : allResults[k].IP = ips[i]

\* The channel has been closed while outcomes are still buffered: the
\* collector has received some and goes on to drain the rest.
C18_Witness ==
    /\ resultsClosed
    /\ pcMain = "collect"
    /\ Len(results) > 0
    /\ Len(allResults) > 0
    /\ Len(ips) = NumTargets

\* The workers that exist: started and not yet ended.
Live == {i \in Tasks : task[i].pc \notin {"idle", "finished"}}

\* C19, as stated: a slot is acquired by the task, so the launching of
\* further tasks goes on while no slot is free: the launch loop never has to
\* wait for a slot.
C19_LaunchNeverWaits ==
    (pcMain = "acquire" /\ idx <= Len(ips)) => SemaphoreHasRoom

\* C19, amended: the slot is acquired by the launch loop before it starts
\* the task. The targets are launched one by one in order, exactly those
\* before the loop's position have a worker, and every worker that exists
\* holds a slot (the slots taken are those of the live workers plus the one
\* main has just taken for the worker it is about to start): no worker is
\* ever queued for a slot, it is the launch loop that waits.
C19_LaunchLoopHoldsSlot ==
    /\ \A i \in Tasks : (i < idx) <=> (task[i].pc # "idle")
    /\ semaphore = Cardinality(Live) + (IF pcMain = "go" THEN 1 ELSE 0)
    /\ pcMain \in {"acquire", "go"} => idx <= Len(ips)

\* Every slot is held by a live worker and the launch loop waits for one,
\* the worker of the next target not having been started.
C19_Witness ==
    /\ pcMain = "acquire"
    /\ ~SemaphoreHasRoom
    /\ Cardinality(Live) = maxConcurrent
    /\ idx <= Len(ips)
    /\ task[idx].pc = "idle"

\* The worker of target i has been started and its reachability probe has
\* returned.
Probed(i) == task[i].pc \notin {"idle", "check", "reachClose"}

\* C20: once the launch loop has been entered, every target is eventually
\* launched and probed, whatever the outcomes of the other targets: the loop
\* gets past its last target and no target is left without a worker.
C20_AllLaunched ==
    (pcMain = "loop") ~> (idx > Len(ips) /\ \A i \in Tasks : Probed(i))

\* With more targets than slots, the first target unreachable and the
\* second failed on both commands, the last target has been launched and
\* probed.
C20_Witness ==
    /\ Len(ips) > maxConcurrent
    /\ idx > Len(ips)
    /\ \A i \in Tasks : Probed(i)
    /\ \E k \in 1..NumSent : SentAt(k) = UnreachableOutcome(ips[1])
    /\ \E k \in 1..NumSent :
          /\ SentAt(k).IP = ips[2]
          /\ ~SentAt(k).Success
          /\ SentAt(k).Error # <<"Host unreachable">>

\* The report grows only by the outcome at the head of the channel, added
\* at its end.
ReportGrowsByReceipt ==
    allResults' # allResults =>
        /\ Len(results) > 0
        /\ allResults' = Append(allResults, Head(results))
        /\ results' = Tail(results)

\* The channel is first in, first out: it changes only by losing its head
\* or by gaining one outcome at its tail.
ChannelIsFifo ==
    results' # results =>
        \/ Len(results) > 0 /\ results' = Tail(results)
        \/ /\ Len(results') = Len(results) + 1
           /\ SubSeq(results', 1, Len(results)) = results

\* The report holds at most one outcome per target, each of a target of
\* the scan; the written file holds the records in the report's order.
ReportIsPermutation ==
    /\ \A k \in 1..Len(allResults) :
          /\ \E i \in 1..Len(ips) : allResults[k].IP = ips[i]
          /\ \A j \in 1..Len(allResults) :
                j # k => allResults[j].IP # allResults[k].IP
    /\ Saved => IsRecordsOf(outFile, allResults)

\* C21: the report holds the outcomes in the order in which the collector
\* received them from the results channel, which hands them over in the
\* order they were sent; the report is at all times one outcome each of
\* distinct targets, and the result file lists them in the report's order.
C21_ArrivalOrder ==
    /\ []ReportIsPermutation
    /\ [][ReportGrowsByReceipt]_vars
    /\ [][ChannelIsFifo]_vars

\* A report has been written whose first outcome is the second target's:
\* arrival order differs from input order.
C21_Witness ==
    /\ Saved
    /\ Len(allResults) = NumTargets
    /\ allResults[1].IP = ips[2]
    /\ allResults[1].IP # ips[1]

\* saveResultsToFile has been called, or the file exists.
SaveStarted ==
    pcMain \in {"save", "saveFailed", "done"} \/ outFile # NoFile

HandlesByStage ==
    \A i \in Tasks :
        /\ task[i].client = (task[i].pc \in {"session", "run"})
        /\ task[i].session = (task[i].pc = "run")

\* The text with which the error of each stage begins.
StageName(pc) ==
    CASE pc = "dial" -> "failed to dial: "
      [] pc = "session" -> "failed to create session: "
      [] pc = "run" -> "failed to execute command: "

\* A step of a call of executeSSHCommand either passes to the next stage or
\* returns: with a nil error only from the last stage and with its output,
\* with an error only with an empty output and the name of the stage the
\* call was at, and in both cases with no handle left open.
ExecStep(i) ==
    LET t == task[i]
        u == task'[i]
    IN  (InExec(i) /\ u # t) =>
          \/ /\ t.pc = "dial" /\ u.pc = "session"
             /\ u.attempts = t.attempts
          \/ /\ t.pc = "session" /\ u.pc = "run"
             /\ u.attempts = t.attempts
          \/ /\ Len(u.attempts) = Len(t.attempts) + 1
             /\ SubSeq(u.attempts, 1, Len(t.attempts)) = t.attempts
             /\ ~u.client /\ ~u.session
             /\ LET a == u.attempts[Len(u.attempts)]
                IN  /\ a.cmd = t.cmd
                    /\ a.ok = (u.ret = <<>>)
                    /\ a.ok => t.pc = "run" /\ a.out \in Outputs
                    /\ ~a.ok => /\ a.out = <<>>
                                /\ Len(u.ret) = 2
                                /\ u.ret[1] = StageName(t.pc)

\* C23: executeSSHCommand goes dial, session, run and stops at the first
\* stage that fails; it returns either an output with a nil error or an
\* empty output with an error that names the failed stage; when it has
\* returned, every client and session it opened is closed.
C23_ExecStages ==
    /\ []HandlesByStage
    /\ [][\A i \in Tasks : ExecStep(i)]_vars

\* One call has returned from a failed session stage with its client
\* closed, another has passed the three stages and returned an output.
C23_Witness ==
    \E j, k \in Tasks :
        /\ task[j].pc = "dial" /\ task[j].cmd = 2 /\ ~task[j].client
        /\ task[j].ret = <<"failed to create session: ", SessionCause>>
        /\ task[k].pc = "sendOk" /\ Len(task[k].attempts) = 1
        /\ task[k].attempts[1].ok

\* C24: when parseIPRange has returned a nil error the list it returned
\* holds at least one address; an empty list comes only with an error.
C24_NoEmptySuccess ==
    pcMain # "parse" =>
        /\ parseErr = "nil" => Len(ips) >= 1
        /\ ips = <<>> => parseErr # "nil" /\ pcMain = "exit"

\* The smallest expansion has been returned: one address, no error.
C24_Witness ==
    /\ pcMain = "loop"
    /\ parseErr = "nil"
    /\ Len(ips) = 1
    /\ \A n \in 1..4 : IsNumeral(Piece(ipRange, n))

\* The error of line 95 is returned for no input: every part that was
\* parsed denotes at least one value.
C24_EmptyBranchDead == parseErr # "no valid IP addresses generated"

\* The calls of wg.Add(1) so far: one for every target the launch loop has
\* taken up.
Added == IF pcMain \in {"acquire", "go"} THEN idx ELSE idx - 1

\* The outcome of target i has been sent and says the host was unreachable.
SentUnreachable(i) ==
    \E k \in OutcomesFor(i) : SentAt(k).Error = <<"Host unreachable">>

\* The worker of target i has passed getOSInfo and its deferred wg.Done.
RanWgDone(i) ==
    /\ task[i].pc \in {"release", "finished"}
    /\ ~SentUnreachable(i)

Launched(i) == i < idx \/ (i = idx /\ pcMain = "go")

\* C26: a worker that has ended has released its slot once, whatever its
\* exit path, and a worker releases only after its outcome was sent: the
\* slots held are those of the launched targets whose worker has not
\* ended, the launched targets are those whose outcome was sent and those
\* that have not yet sent, and the semaphore is empty when every launched
\* worker has ended.
C26_SlotReleasedOnce ==
    /\ semaphore =
          Cardinality({i \in Tasks : Launched(i) /\ task[i].pc # "finished"})
    /\ Cardinality({i \in Tasks : Launched(i)}) =
          NumSent + Cardinality({i \in Tasks :
                                   Launched(i) /\ OutcomesFor(i) = {}})
    /\ \A i \in Tasks :
          /\ task[i].pc \in {"release", "finished"} =>
                Cardinality(OutcomesFor(i)) = 1
          /\ task[i].pc # "idle" => Launched(i)
    /\ (\A i \in Tasks : Launched(i) => task[i].pc = "finished")
          => semaphore = 0

\* Three workers have ended, one on each exit path (unreachable, probe
\* succeeded, both commands failed), and no slot is held.
C26_Witness ==
    /\ Len(ips) = NumTargets
    /\ \A i \in Tasks : task[i].pc = "finished"
    /\ semaphore = 0
    /\ \E i, j, k \in Tasks :
          /\ SentUnreachable(i)
          /\ \E n \in OutcomesFor(j) : SentAt(n).Success
          /\ \E n \in OutcomesFor(k) :
                /\ ~SentAt(n).Success
                /\ SentAt(n).Error # <<"Host unreachable">>

\* The worker of target i is at one of the three sends.
AtSend(i) == task[i].pc \in {"sendUnreach", "sendFail", "sendOk"}

\* C27: the outcomes sent never outnumber the targets, which is the
\* capacity of the results channel, so the buffer never holds more than its
\* capacity and a worker that comes to its send finds room in the buffer;
\* nothing is received before the launch loop has admitted the last target.
C27_SendNeverBlocks ==
    /\ NumSent <= Capacity
    /\ Len(results) <= Capacity
    /\ \A i \in Tasks : AtSend(i) => Len(results) < Capacity
    /\ allResults # <<>> => idx > Len(ips)

\* Every worker has sent before the collector has started: the buffer is
\* filled to its capacity.
C27_Witness ==
    /\ Len(ips) = NumTargets
    /\ pcMain = "loop"
    /\ allResults = <<>>
    /\ Len(results) = NumTargets

\* The outcome o is well-formed for the targets of the scan.
WellFormed(o) ==
    /\ \E i \in 1..Len(ips) : o.IP = ips[i]
    /\ o.Success => /\ o.Error = <<>>
                    /\ o.OSInfo # <<>> =>
                          /\ o.OSInfo[1] \notin White
                          /\ o.OSInfo[Len(o.OSInfo)] \notin White
    /\ ~o.Success => /\ o.OSInfo = <<>>
                     /\ o.Error # <<>>

\* C28: every outcome sent, buffered or collected, has the address of one
\* of the targets; a successful one has no failure reason and a payload
\* without leading or trailing white space; a failed one has no payload and
\* a failure reason that is not empty.
C28_OutcomesWellFormed ==
    \A k \in 1..NumSent : WellFormed(SentAt(k))

\* Outcomes of the three kinds have been sent: an unreachable host, a
\* failed probe and a success whose raw output had white space around it.
C28_Witness ==
    /\ NumSent = NumTargets
    /\ \E a, b, c \in 1..NumSent :
          /\ SentAt(a).Error = <<"Host unreachable">>
          /\ SentAt(b).Error = <<"failed to dial: ", DialCause>>
          /\ SentAt(c).Success
          /\ SentAt(c).OSInfo = <<"a", " ", "b">>

\* A step that writes the collector's state is an iteration of the
\* collector loop: it takes the head of the channel, appends it to the
\* report and counts it once, and it is no step of a worker.
CollectorWrites ==
    (\/ allResults' # allResults
     \/ successCount' # successCount
     \/ failedCount' # failedCount) =>
        /\ pcMain = "collect" /\ pcMain' = "collect"
        /\ Len(results) > 0
        /\ results' = Tail(results)
        /\ allResults' = Append(allResults, Head(results))
        /\ successCount' =
              successCount + (IF Head(results).Success THEN 1 ELSE 0)
        /\ failedCount' =
              failedCount + (IF Head(results).Success THEN 0 ELSE 1)
        /\ UNCHANGED <<task, wg, semaphore>>

\* A step of the worker of target i leaves the locals of the other workers
\* and the state of main and of the collector alone: beside its locals it
\* writes the results channel, the semaphore and the WaitGroup only.
WorkerWrites(i) ==
    (task[i].pc # "idle" /\ task'[i] # task[i]) =>
        /\ \A j \in Tasks \ {i} : task'[j] = task[j]
        /\ UNCHANGED <<pcMain, ips, idx, pcCloser, resultsClosed, allResults,
                       successCount, failedCount, outFile, summary>>
        /\ \/ UNCHANGED <<results, wg, semaphore>>
           \/ AtSend(i) /\ UNCHANGED <<wg, semaphore>>
           \/ task[i].pc = "wgDone" /\ UNCHANGED <<results, semaphore>>
           \/ task[i].pc = "release" /\ UNCHANGED <<results, wg>>

\* The counters count the outcomes of the report, each once.
CountsMatchReport ==
    /\ successCount =
          Cardinality({k \in 1..Len(allResults) : allResults[k].Success})
    /\ failedCount =
          Cardinality({k \in 1..Len(allResults) : ~allResults[k].Success})
    /\ Cardinality({SentAt(k).IP : k \in 1..NumSent}) = NumSent

\* C29: allResults, successCount and failedCount are written by the
\* collector loop only, one received outcome at a time; a worker writes,
\* beside its own locals, only the results channel, the semaphore and the
\* WaitGroup; the counters count every collected outcome once.
C29_CollectorOwnsCounts ==
    /\ []CountsMatchReport
    /\ [][CollectorWrites]_vars
    /\ [][\A i \in Tasks : WorkerWrites(i)]_vars

\* The collector has counted a success and a failure while a worker is
\* still at work.
C29_Witness ==
    /\ pcMain = "collect"
    /\ successCount >= 1
    /\ failedCount >= 1
    /\ \E i \in Tasks : InExec(i) \/ AtSend(i)

====
